---- MODULE Spec2Model ----
(***************************************************************************)
(* Model of the notebook's data pipeline (src/notebook.py): the cleaning   *)
(* cell (drop, parse date, derive day, sort, set_index, fillna), the       *)
(* back-extrapolation cell (estimate applied row by row, set_index) and    *)
(* the differencing statement (label-aligned Series subtraction).          *)
(*                                                                         *)
(* A DataFrame is a record [columns, index, rows]: `columns` the set of    *)
(* column names, `rows` the sequence of rows (functions from column name   *)
(* to cell), `index` the sequence of row labels (parallel to rows).        *)
(* A string of digits is a sequence over 0..9.  A calendar date is a       *)
(* record [year, month, day].  A float is modelled by the exact rational   *)
(* <<numerator, denominator>> it approximates (IEEE rounding is not        *)
(* modelled).                                                              *)
(***************************************************************************)
EXTENDS Integers, Sequences, FiniteSets, TLC

\* df, data, estimates, diff: the notebook's variables of those names;
\* pc: the statement to run next ("done" after the last, "aborted" after an
\* exception); err: the exception that ended the run; pass: 2 once the
\* cleaning cell has been given its own result to clean.
VARIABLES df, data, estimates, diff, pc, err, pass

vars == <<df, data, estimates, diff, pc, err, pass>>

\* ------------------------------------------------------------------ bounds
\* the longest feed considered
MaxRows == 2

\* ------------------------------------------------------------ cell values
\* a numeric cell is the rational <<numerator, denominator>>; NaN has
\* denominator 0
NaN == <<0, 0>>

Num(n) == <<n, 1>>

\* the date strings the feed may deliver (after astype(str))
DateStrings ==
    { <<2,0,2,0,0,2,2,5>>,      \* well-formed, 14 days before the next one
      <<2,0,2,0,0,3,1,0>>,      \* well-formed
      <<2,0,2,0,3,1,0>>,        \* 7 digits
      <<2,0,2,0,1,3,1,7>>,      \* 8 digits, no month 13
      <<0,0,0,1,0,1,0,5>> }     \* well-formed, first days of year 1

\* the counts a record may carry: null, or a number
RawCounts == {NaN, Num(0), Num(1)}

RawColumns == {"date", "positive", "death", "hash", "dateChecked"}

RawRow == [date : DateStrings, positive : RawCounts, death : RawCounts,
           hash : {"h"}, dateChecked : {"t"}]

RECURSIVE SeqsUpTo(_, _)
SeqsUpTo(S, n) ==
    IF n = 0 THEN { <<>> }
    ELSE LET shorter == SeqsUpTo(S, n - 1)
         IN  shorter \cup { Append(s, x) : s \in { t \in shorter : Len(t) = n - 1 }, x \in S }

RangeIndex(n) == [i \in 1..n |-> i - 1]

\* pd.read_json: the columns are the keys of the objects; an empty array
\* gives a frame without columns
Frame(rows) ==
    [columns |-> IF rows = <<>> THEN {} ELSE RawColumns,
     index   |-> RangeIndex(Len(rows)),
     rows    |-> rows]

NoFrame == [columns |-> {}, index |-> <<>>, rows |-> <<>>]

\* --------------------------------------------------------------- calendar
\* datetime's proleptic Gregorian calendar, as date.toordinal /
\* date.fromordinal compute it (date + timedelta works on ordinals)
IsLeap(y) == y % 4 = 0 /\ (y % 100 # 0 \/ y % 400 = 0)

DaysInMonthTable == <<31, 28, 31, 30, 31, 30, 31, 31, 30, 31, 30, 31>>

DaysBeforeMonthTable == <<0, 31, 59, 90, 120, 151, 181, 212, 243, 273, 304, 334>>

DaysInMonth(y, m) == IF m = 2 /\ IsLeap(y) THEN 29 ELSE DaysInMonthTable[m]

DaysBeforeMonth(y, m) ==
    DaysBeforeMonthTable[m] + (IF m > 2 /\ IsLeap(y) THEN 1 ELSE 0)

DaysBeforeYear(y) ==
    LET p == y - 1 IN p * 365 + (p \div 4) - (p \div 100) + (p \div 400)

toordinal(d) == DaysBeforeYear(d.year) + DaysBeforeMonth(d.year, d.month) + d.day

fromordinal(ord) ==
    LET n0   == ord - 1
        n400 == n0 \div 146097
        r400 == n0 % 146097
        n100 == r400 \div 36524
        r100 == r400 % 36524
        n4   == r100 \div 1461
        r4   == r100 % 1461
        n1   == r4 \div 365
        n    == r4 % 365
        y    == n400 * 400 + 1 + n100 * 100 + n4 * 4 + n1
    IN  IF n1 = 4 \/ n100 = 4
        THEN [year |-> y - 1, month |-> 12, day |-> 31]
        ELSE LET leap == n1 = 3 /\ (n4 # 24 \/ n100 = 3)
                 m0   == (n + 50) \div 32
                 p0   == DaysBeforeMonthTable[m0] + (IF m0 > 2 /\ leap THEN 1 ELSE 0)
                 m    == IF p0 > n THEN m0 - 1 ELSE m0
                 p    == IF p0 > n
                         THEN p0 - (DaysInMonthTable[m]
                                    + (IF m = 2 /\ leap THEN 1 ELSE 0))
                         ELSE p0
             IN  [year |-> y, month |-> m, day |-> n - p + 1]

\* ------------------------------------------------ strptime(s, "%Y%m%d")
\* The format is compiled to the regular expression
\*   (\d\d\d\d)(1[0-2]|0[1-9]|[1-9])(3[01]|[12]\d|0[1-9]|[1-9]| [1-9])
\* matched at the start of the string, alternatives tried in order with
\* backtracking; text left after the match, or a day the month does not
\* have, is a ValueError.
\* the lengths the month group can take at position p, in the order tried
MonthLens(s, p) ==
    (IF p + 1 <= Len(s)
        /\ (   (s[p] = 1 /\ s[p + 1] \in 0..2)
            \/ (s[p] = 0 /\ s[p + 1] \in 1..9))
     THEN <<2>> ELSE <<>>)
    \o (IF p <= Len(s) /\ s[p] \in 1..9 THEN <<1>> ELSE <<>>)

\* the lengths the day group can take at position p, in the order tried
DayLens(s, p) ==
    (IF p + 1 <= Len(s)
        /\ (   (s[p] = 3 /\ s[p + 1] \in 0..1)
            \/ (s[p] \in 1..2)
            \/ (s[p] = 0 /\ s[p + 1] \in 1..9))
     THEN <<2>> ELSE <<>>)
    \o (IF p <= Len(s) /\ s[p] \in 1..9 THEN <<1>> ELSE <<>>)

Number(s, p, n) == IF n = 1 THEN s[p] ELSE s[p] * 10 + s[p + 1]

\* the first way the expression matches: <<length of month, length of day>>
FirstMatch(s) ==
    LET ms   == MonthLens(s, 5)
        ways == [i \in 1..Len(ms) |-> DayLens(s, 5 + ms[i])]
        ok   == { i \in 1..Len(ms) : ways[i] # <<>> }
    IN  IF Len(s) < 4 \/ ok = {} THEN <<>>
        ELSE LET i == CHOOSE j \in ok : \A k \in ok : j <= k
             IN  <<ms[i], ways[i][1]>>

\* strptime raises ValueError
strptimeFails(s) ==
    LET w == FirstMatch(s)
    IN  \/ w = <<>>
        \/ 4 + w[1] + w[2] # Len(s)
        \/ LET y == s[1] * 1000 + s[2] * 100 + s[3] * 10 + s[4]
               m == Number(s, 5, w[1])
               d == Number(s, 5 + w[1], w[2])
           IN  y < 1 \/ d > DaysInMonth(y, m)

\* the date strptime returns when it does not raise
strptime(s) ==
    LET w == FirstMatch(s)
    IN  [year  |-> s[1] * 1000 + s[2] * 100 + s[3] * 10 + s[4],
         month |-> Number(s, 5, w[1]),
         day   |-> Number(s, 5 + w[1], w[2])]

\* ------------------------------------------------- strftime("%b %d")
MonthAbbr == <<"Jan", "Feb", "Mar", "Apr", "May", "Jun",
               "Jul", "Aug", "Sep", "Oct", "Nov", "Dec">>

\* month abbreviation, then the day as two digits
strftime(d) == <<MonthAbbr[d.month], d.day \div 10, d.day % 10>>

\* ------------------------------------------------------ float arithmetic
RECURSIVE GCD(_, _)
GCD(a, b) == IF b = 0 THEN a ELSE GCD(b, a % b)

Abs(n) == IF n < 0 THEN -n ELSE n

\* a rational in lowest terms with a positive denominator
Normal(n, d) ==
    IF d = 0 THEN NaN
    ELSE LET g == GCD(Abs(n), Abs(d))
             sgn == IF d < 0 THEN -1 ELSE 1
         IN  <<sgn * (n \div g), sgn * (d \div g)>>

isna(x) == x = NaN

\* floor division in place of true division
Div_floor(x, y) ==
    IF isna(x) \/ isna(y) THEN NaN ELSE Num((x[1] * y[2]) \div (x[2] * y[1]))

Div(x, y) == IF isna(x) \/ isna(y) THEN NaN ELSE Normal(x[1] * y[2], x[2] * y[1])

Sub(x, y) ==
    IF isna(x) \/ isna(y) THEN NaN
    ELSE Normal(x[1] * y[2] - y[1] * x[2], x[2] * y[2])

\* ------------------------------------------------------------ DataFrames
\* DataFrame.drop(labels, axis=1) when every label is a column
drop(f, labels) ==
    [f EXCEPT !.columns = f.columns \ labels,
              !.rows = [i \in 1..Len(f.rows) |->
                           [c \in f.columns \ labels |-> f.rows[i][c]]]]

\* f[col] = f[from].apply(...): the column col set, cell by cell, from the
\* column `from`; `day` says which of the two conversions is applied
Converted(x, day) == IF day THEN strftime(x) ELSE strptime(x)

assign(f, col, from, day) ==
    [f EXCEPT !.columns = f.columns \cup {col},
              !.rows = [i \in 1..Len(f.rows) |->
                           [c \in f.columns \cup {col} |->
                               IF c = col THEN Converted(f.rows[i][from], day)
                               ELSE f.rows[i][c]]]]

RowOrders(n) ==
    { p \in [1..n -> 1..n] : \A i, j \in 1..n : i # j => p[i] # p[j] }

\* rows left in any order
SortOrders_any(f, col) == RowOrders(Len(f.rows))

\* the row orders sort_values(col) may produce: ascending by the date's
\* ordinal; quicksort leaves the order of equal keys open
SortOrders(f, col) ==
    { p \in RowOrders(Len(f.rows)) :
        \A i \in 1..(Len(f.rows) - 1) :
            toordinal(f.rows[p[i]][col]) <= toordinal(f.rows[p[i + 1]][col]) }

reorder(f, p) ==
    [f EXCEPT !.index = [i \in 1..Len(f.rows) |-> f.index[p[i]]],
              !.rows  = [i \in 1..Len(f.rows) |-> f.rows[p[i]]]]

\* set_index keeping only the first row of each label
set_index_unique(f, col) ==
    LET keep == SelectSeq([i \in 1..Len(f.rows) |-> i],
                          LAMBDA i : \A j \in 1..(i - 1) : f.rows[j][col] # f.rows[i][col])
    IN  [columns |-> f.columns \ {col},
         index   |-> [k \in 1..Len(keep) |-> f.rows[keep[k]][col]],
         rows    |-> [k \in 1..Len(keep) |->
                         [c \in f.columns \ {col} |-> f.rows[keep[k]][c]]]]

\* DataFrame.set_index(col): the column becomes the row labels; the labels
\* are not checked for duplicates
set_index(f, col) ==
    [columns |-> f.columns \ {col},
     index   |-> [i \in 1..Len(f.rows) |-> f.rows[i][col]],
     rows    |-> [i \in 1..Len(f.rows) |->
                     [c \in f.columns \ {col} |-> f.rows[i][c]]]]

\* fillna that fills nothing
fillna_none(f, v) == f

\* DataFrame.fillna(v): every NaN cell of every column becomes v
fillna(f, v) ==
    [f EXCEPT !.rows = [i \in 1..Len(f.rows) |->
                           [c \in f.columns |->
                               IF isna(f.rows[i][c]) THEN v ELSE f.rows[i][c]]]]

\* a column as a Series: the frame's labels with the column's cells
column(f, col) ==
    [index |-> f.index, values |-> [i \in 1..Len(f.rows) |-> f.rows[i][col]]]

NoSeries == [index |-> <<>>, values |-> <<>>]

\* ---------------------------------------------- Series minus Series
\* the positions of a label in an index, ascending
PosSeq(idx, o) ==
    SelectSeq([i \in 1..Len(idx) |-> i], LAMBDA i : toordinal(idx[i]) = o)

\* the pairs <<left position, right position>> the outer join makes for one
\* label; 0 stands for "absent on that side"; a label both sides repeat
\* gives every pairing
Block(l, r) ==
    IF l = <<>> THEN [k \in 1..Len(r) |-> <<0, r[k]>>]
    ELSE IF r = <<>> THEN [k \in 1..Len(l) |-> <<l[k], 0>>]
    ELSE [k \in 1..(Len(l) * Len(r)) |->
             <<l[((k - 1) \div Len(r)) + 1], r[((k - 1) % Len(r)) + 1]>>]

RECURSIVE JoinFrom(_, _, _)
JoinFrom(lidx, ridx, labels) ==
    IF labels = {} THEN <<>>
    ELSE LET o == CHOOSE x \in labels : \A y \in labels : x <= y
         IN  Block(PosSeq(lidx, o), PosSeq(ridx, o))
             \o JoinFrom(lidx, ridx, labels \ {o})

\* Index.join(other, how="outer"): labels are matched by calendar date
join(lidx, ridx) ==
    JoinFrom(lidx, ridx,
             { toordinal(lidx[i]) : i \in 1..Len(lidx) }
             \cup { toordinal(ridx[i]) : i \in 1..Len(ridx) })

\* absent cells taken as 0
take_zero(values, i) == IF i = 0 THEN Num(0) ELSE values[i]

take(values, i) == IF i = 0 THEN NaN ELSE values[i]

\* subtraction cell by cell in row order, under the left operand's labels
SeriesSub_positional(a, b) ==
    [index  |-> a.index,
     values |-> [i \in 1..Len(a.values) |->
                    Sub(a.values[i], take(b.values, IF i <= Len(b.values) THEN i ELSE 0))]]

\* a - b for two Series: equal indexes subtract cell by cell, otherwise the
\* operands are first aligned on the union of their labels
SeriesSub(a, b) ==
    IF a.index = b.index
    THEN [index  |-> a.index,
          values |-> [i \in 1..Len(a.values) |-> Sub(a.values[i], b.values[i])]]
    ELSE LET j == join(a.index, b.index)
         IN  [index  |-> [k \in 1..Len(j) |->
                             IF j[k][1] # 0 THEN a.index[j[k][1]]
                             ELSE b.index[j[k][2]]],
              values |-> [k \in 1..Len(j) |->
                             Sub(take(a.values, j[k][1]), take(b.values, j[k][2]))]]

\* ------------------------------------------------- back-extrapolation
delta == -14

\* 0.0066
death_rate == <<66, 10000>>

\* 0.0138
death_rate_s == <<138, 10000>>

\* date + timedelta raises OverflowError below date.min (ordinal 1)
estimateFails(name) == toordinal(name) + delta < 1

\* the day label taken from the record's own date
estimate_labelOfRecord(name, row) ==
    LET d == fromordinal(toordinal(name) + delta)
    IN  [date        |-> d,
         infected    |-> Div(row["death"], death_rate),
         symptomatic |-> Div(row["death"], death_rate_s),
         day         |-> strftime(name)]

estimate(name, row) ==
    LET d == fromordinal(toordinal(name) + delta)
    IN  [date        |-> d,
         infected    |-> Div(row["death"], death_rate),
         symptomatic |-> Div(row["death"], death_rate_s),
         day         |-> strftime(d)]

\* the estimates in reverse row order
apply_reversed(f) ==
    [columns |-> {"date", "infected", "symptomatic", "day"},
     index   |-> f.index,
     rows    |-> [i \in 1..Len(f.rows) |->
                     estimate(f.index[Len(f.rows) + 1 - i], f.rows[Len(f.rows) + 1 - i])]]

\* DataFrame.apply(estimate, axis=1, result_type="expand"): one row per row,
\* in order, under the same labels
apply(f) ==
    [columns |-> {"date", "infected", "symptomatic", "day"},
     index   |-> f.index,
     rows    |-> [i \in 1..Len(f.rows) |-> estimate(f.index[i], f.rows[i])]]

\* --------------------------------------------------------------- the run
\* drop that ignores labels that are no columns
hasLabels_any(f, labels) == TRUE

\* drop raises KeyError unless every label is a column
hasLabels(f, labels) == labels \subseteq f.columns

Init ==
    /\ df \in { Frame(rows) : rows \in SeqsUpTo(RawRow, MaxRows) }
    /\ data = NoFrame
    /\ estimates = NoFrame
    /\ diff = NoSeries
    /\ pc = "drop"
    /\ err = "none"
    /\ pass = 1

Abort(e) ==
    /\ pc' = "aborted"
    /\ err' = e

\* data = df.drop(['hash','dateChecked'], axis=1)
Drop ==
    /\ pc = "drop"
    /\ IF hasLabels(df, {"hash", "dateChecked"})
       THEN /\ data' = drop(df, {"hash", "dateChecked"})
            /\ pc' = "parse"
            /\ err' = err
       ELSE /\ Abort("KeyError")
            /\ data' = data
    /\ UNCHANGED <<df, estimates, diff, pass>>

\* data.date = data.date.astype(str).apply(dt.datetime.strptime, args=["%Y%m%d"])
ParseDate ==
    /\ pc = "parse"
    /\ IF "date" \notin data.columns
       THEN /\ Abort("AttributeError")
            /\ data' = data
       ELSE IF \E i \in 1..Len(data.rows) : strptimeFails(data.rows[i]["date"])
       THEN /\ Abort("ValueError")
            /\ data' = data
       ELSE /\ data' = assign(data, "date", "date", FALSE)
            /\ pc' = "day"
            /\ err' = err
    /\ UNCHANGED <<df, estimates, diff, pass>>

\* data['day'] = data.date.apply(lambda d: d.strftime("%b %d"))
DeriveDay ==
    /\ pc = "day"
    /\ data' = assign(data, "day", "date", TRUE)
    /\ pc' = "sort"
    /\ UNCHANGED <<df, estimates, diff, err, pass>>

\* data.sort_values('date', inplace=True)
SortValues ==
    /\ pc = "sort"
    /\ \E p \in SortOrders(data, "date") : data' = reorder(data, p)
    /\ pc' = "set_index"
    /\ UNCHANGED <<df, estimates, diff, err, pass>>

\* data.set_index('date', inplace=True)
SetIndex ==
    /\ pc = "set_index"
    /\ data' = set_index(data, "date")
    /\ pc' = "fillna"
    /\ UNCHANGED <<df, estimates, diff, err, pass>>

\* data.fillna(0, inplace=True)
FillNa ==
    /\ pc = "fillna"
    /\ data' = fillna(data, Num(0))
    /\ pc' = "estimate"
    /\ UNCHANGED <<df, estimates, diff, err, pass>>

\* estimates = data.apply(estimate, axis=1, result_type='expand')
Estimate ==
    /\ pc = "estimate"
    /\ IF \E i \in 1..Len(data.index) : estimateFails(data.index[i])
       THEN /\ Abort("OverflowError")
            /\ estimates' = estimates
       ELSE /\ estimates' = apply(data)
            /\ pc' = "est_set_index"
            /\ err' = err
    /\ UNCHANGED <<df, data, diff, pass>>

\* estimates.set_index('date', inplace=True)
SetIndexEstimates ==
    /\ pc = "est_set_index"
    /\ estimates' = set_index(estimates, "date")
    /\ pc' = "diff"
    /\ UNCHANGED <<df, data, diff, err, pass>>

\* diff = estimates.infected - data.positive
Diff ==
    /\ pc = "diff"
    /\ diff' = SeriesSub(column(estimates, "infected"), column(data, "positive"))
    /\ pc' = "done"
    /\ UNCHANGED <<df, data, estimates, err, pass>>

Next ==
    \/ Drop
    \/ ParseDate
    \/ DeriveDay
    \/ SortValues
    \/ SetIndex
    \/ FillNa
    \/ Estimate
    \/ SetIndexEstimates
    \/ Diff

Spec == Init /\ [][Next]_vars

\* The cleaning cell applied to its own result: the cleaned collection is
\* handed back as the frame to clean.
Reclean ==
    /\ pc = "estimate"
    /\ pass = 1
    /\ df' = data
    /\ pass' = 2
    /\ pc' = "drop"
    /\ UNCHANGED <<data, estimates, diff, err>>

NextReclean ==
    \/ Next
    \/ Reclean

SpecReclean == Init /\ [][NextReclean]_vars

\* ======================================================== properties
\* the cleaning cell has run to its end
Cleaned ==
    \/ pc \in {"estimate", "est_set_index", "diff", "done"}
    \/ pc = "aborted" /\ err = "OverflowError"

\* the back-extrapolation cell has produced the estimates
Estimated == pc \in {"est_set_index", "diff", "done"}

\* the dates of the estimates, before and after they become the index
EstimateDate(i) ==
    IF pc = "est_set_index" THEN estimates.rows[i]["date"] ELSE estimates.index[i]

Before(a, b) ==
    \/ a.year < b.year
    \/ a.year = b.year /\ a.month < b.month
    \/ a.year = b.year /\ a.month = b.month /\ a.day <= b.day

\* the calendar, day by day
LastDay(y, m) ==
    IF m \in {4, 6, 9, 11} THEN 30
    ELSE IF m # 2 THEN 31
    ELSE IF y % 400 = 0 \/ (y % 4 = 0 /\ y % 100 # 0) THEN 29
    ELSE 28

Yesterday(d) ==
    IF d.day > 1 THEN [d EXCEPT !.day = d.day - 1]
    ELSE IF d.month > 1
         THEN [year |-> d.year, month |-> d.month - 1, day |-> LastDay(d.year, d.month - 1)]
         ELSE [year |-> d.year - 1, month |-> 12, day |-> 31]

RECURSIVE DaysBefore(_, _)
DaysBefore(d, n) == IF n = 0 THEN d ELSE DaysBefore(Yesterday(d), n - 1)

RECURSIVE DaysAfter(_, _)
Tomorrow(d) ==
    IF d.day < LastDay(d.year, d.month) THEN [d EXCEPT !.day = d.day + 1]
    ELSE IF d.month < 12
         THEN [year |-> d.year, month |-> d.month + 1, day |-> 1]
         ELSE [year |-> d.year + 1, month |-> 1, day |-> 1]

DaysAfter(d, n) == IF n = 0 THEN d ELSE DaysAfter(Tomorrow(d), n - 1)

\* an 8-digit YYYYMMDD numeral of a calendar date
IsYYYYMMDD(s) ==
    /\ Len(s) = 8
    /\ s[1] * 1000 + s[2] * 100 + s[3] * 10 + s[4] >= 1
    /\ s[5] * 10 + s[6] \in 1..12
    /\ s[7] * 10 + s[8] >= 1
    /\ s[7] * 10 + s[8] <= LastDay(s[1] * 1000 + s[2] * 100 + s[3] * 10 + s[4],
                                   s[5] * 10 + s[6])

Count(seq, Test(_)) == Cardinality({ i \in 1..Len(seq) : Test(seq[i]) })

\* C1: once cleaning has run, the cleaned records are in ascending order of
\* date: every record's date is on or before the next record's date.
CleanedSortedByDate ==
    Cleaned =>
        \A i \in 1..(Len(data.index) - 1) : Before(data.index[i], data.index[i + 1])

\* cleaning has run on records that arrived later date first
WitnessSortedOutOfOrder ==
    /\ Cleaned
    /\ Len(df.rows) = 2
    /\ ~ Before(strptime(df.rows[1]["date"]), strptime(df.rows[2]["date"]))

\* the cleaned record i is the raw record k, parsed and filled
Filled(x) == IF x = NaN THEN Num(0) ELSE x

FromRaw(i, k) ==
    /\ data.index[i] = strptime(df.rows[k]["date"])
    /\ data.rows[i]["positive"] = Filled(df.rows[k]["positive"])
    /\ data.rows[i]["death"] = Filled(df.rows[k]["death"])

\* C2: every cleaned record comes from one raw record (same date), with each
\* null positive or death replaced by 0 and each present one kept.
NullsBecomeZero ==
    Cleaned =>
        \E p \in RowOrders(Len(df.rows)) :
            /\ Len(data.rows) = Len(df.rows)
            /\ \A i \in 1..Len(data.rows) : FromRaw(i, p[i])

\* cleaning has run on a record with a null death and a present positive
WitnessNullFilled ==
    /\ Cleaned
    /\ \E k \in 1..Len(df.rows) :
          /\ df.rows[k]["death"] = NaN
          /\ df.rows[k]["positive"] = Num(1)
    /\ \E k \in 1..Len(df.rows) : df.rows[k]["positive"] = NaN

\* C3 (as stated): cleaning the cleaned collection again succeeds and gives
\* the same collection.
CleaningIdempotent ==
    pass = 2 => /\ pc # "aborted"
                /\ pc = "estimate" => data = df

\* C3 (amended): cleaning the cleaned collection again stops at its first
\* statement with a KeyError, the columns hash and dateChecked being gone;
\* the collection cleaned before is left as it was.
RecleanRaisesKeyError ==
    (pass = 2 /\ pc # "drop") =>
        /\ pc = "aborted"
        /\ err = "KeyError"
        /\ data = df

\* the cleaning cell has been run on its own result
WitnessRecleaned ==
    /\ pass = 2
    /\ pc = "aborted"
    /\ Len(df.rows) = 2

\* C4 (as stated): after cleaning, no two records have the same date.
DateIsUniqueKey ==
    Cleaned =>
        \A i, j \in 1..Len(data.index) : i # j => data.index[i] # data.index[j]

\* C4 (amended): after cleaning, each date has as many records as raw
\* records carry it, so the date is a unique key exactly when no two raw
\* records have the same date.
DatesKeptAsGiven ==
    Cleaned =>
        /\ Len(data.index) = Len(df.rows)
        /\ \A k \in 1..Len(df.rows) :
              LET d == strptime(df.rows[k]["date"])
              IN  Count(data.index, LAMBDA x : x = d)
                  = Count(df.rows, LAMBDA r : strptime(r["date"]) = d)

\* cleaning has run on two records of one date
WitnessSameDateTwice ==
    /\ Cleaned
    /\ Len(df.rows) = 2
    /\ strptime(df.rows[1]["date"]) = strptime(df.rows[2]["date"])

\* C5: a raw date that is not an 8-digit YYYYMMDD numeral makes cleaning
\* fail: the run gets no further than the parsing statement and produces no
\* estimates and no diff.
MalformedDateAborts ==
    (pass = 1 /\ \E k \in 1..Len(df.rows) : ~ IsYYYYMMDD(df.rows[k]["date"])) =>
        /\ pc \in {"drop", "parse", "aborted"}
        /\ pc = "aborted" => err = "ValueError"
        /\ estimates = NoFrame
        /\ diff = NoSeries

\* C6: every estimate is dated exactly 14 calendar days before the record it
\* is made from, also when that is before the first observed date, and its
\* day label is the label of the shifted date.
ShiftIsExact ==
    Estimated =>
        \A i \in 1..Len(estimates.rows) :
            /\ EstimateDate(i) = DaysBefore(data.index[i], 14)
            /\ estimates.rows[i]["day"] = strftime(DaysBefore(data.index[i], 14))

\* an estimate dated in the month before its record's, earlier than every
\* observed date
WitnessShiftedBeforeFirst ==
    /\ Estimated
    /\ \E i \in 1..Len(estimates.rows) :
          /\ EstimateDate(i).month # data.index[i].month
          /\ estimates.rows[i]["day"] # data.rows[i]["day"]
          /\ \A j \in 1..Len(data.index) :
                ~ Before(data.index[j], EstimateDate(i))

\* C7: there is one estimate per cleaned record, the i-th made from the i-th
\* record, and the estimates are in ascending order of their shifted date,
\* before and after that date becomes their index.
EstimatesInRecordOrder ==
    Estimated =>
        /\ Len(estimates.rows) = Len(data.rows)
        /\ Len(estimates.index) = Len(data.rows)
        /\ \A i \in 1..Len(data.rows) :
              /\ DaysAfter(EstimateDate(i), 14) = data.index[i]
              /\ estimates.rows[i]["infected"][1] * 66
                     = data.rows[i]["death"][1] * 10000 * estimates.rows[i]["infected"][2]
        /\ \A i \in 1..(Len(estimates.rows) - 1) :
              Before(EstimateDate(i), EstimateDate(i + 1))

\* estimates of two records of different dates and death counts, indexed by
\* their date
WitnessTwoEstimates ==
    /\ pc = "diff"
    /\ Len(data.rows) = 2
    /\ data.index[1] # data.index[2]
    /\ data.rows[1]["death"] # data.rows[2]["death"]

Twice(x) == Normal(2 * x[1], x[2])

IsDifference(v, a, b) ==
    /\ v[2] # 0
    /\ v[1] * a[2] * b[2] = (a[1] * b[2] - b[1] * a[2]) * v[2]

InEstimates(d) == \E i \in 1..Len(estimates.index) : estimates.index[i] = d

InData(d) == \E j \in 1..Len(data.index) : data.index[j] = d

\* C8: for every date that both the estimates and the cleaned records have,
\* diff has, at that date, infected of the estimate minus positive of the
\* record, a defined number (one entry for each estimate and record of the
\* date, and nothing else at that date).
DiffOnCommonDates ==
    pc = "done" =>
        \A i \in 1..Len(estimates.index) : \A j \in 1..Len(data.index) :
            estimates.index[i] = data.index[j] =>
                LET d == data.index[j]
                IN  /\ \E k \in 1..Len(diff.index) :
                          /\ diff.index[k] = d
                          /\ IsDifference(diff.values[k], estimates.rows[i]["infected"],
                                          data.rows[j]["positive"])
                    /\ \A k \in 1..Len(diff.index) :
                          diff.index[k] = d =>
                              \E i2 \in 1..Len(estimates.index), j2 \in 1..Len(data.index) :
                                  /\ estimates.index[i2] = d
                                  /\ data.index[j2] = d
                                  /\ IsDifference(diff.values[k],
                                                  estimates.rows[i2]["infected"],
                                                  data.rows[j2]["positive"])
                    /\ Count(diff.index, LAMBDA x : x = d)
                          = Count(estimates.index, LAMBDA x : x = d)
                            * Count(data.index, LAMBDA x : x = d)

\* the diff of estimates and records that share a date, with deaths behind
\* the estimate of that date
WitnessCommonDate ==
    /\ pc = "done"
    /\ \E i \in 1..Len(estimates.index) : \E j \in 1..Len(data.index) :
          /\ estimates.index[i] = data.index[j]
          /\ estimates.rows[i]["infected"] # Num(0)
          /\ data.rows[j]["positive"] # Num(0)

\* C10: diff pairs by date, not by position: at a date d of both series
\* its value is death of the record dated d + 14 days, over 0.0066, minus
\* positive of the record dated d; at a date of only one series it is NaN;
\* every date of either series is in diff.
DiffAlignsByDate ==
    pc = "done" =>
        /\ \A k \in 1..Len(diff.index) :
              LET d == diff.index[k]
                  v == diff.values[k]
              IN  IF InEstimates(d) /\ InData(d)
                  THEN \E i \in 1..Len(data.index), j \in 1..Len(data.index) :
                          /\ data.index[i] = DaysAfter(d, 14)
                          /\ data.index[j] = d
                          /\ v[2] # 0
                          /\ v[1] * 66 = (data.rows[i]["death"][1] * 10000
                                          - data.rows[j]["positive"][1] * 66) * v[2]
                  ELSE /\ v = NaN
                       /\ InEstimates(d) \/ InData(d)
        /\ \A i \in 1..Len(estimates.index) :
              \E k \in 1..Len(diff.index) : diff.index[k] = estimates.index[i]
        /\ \A j \in 1..Len(data.index) :
              \E k \in 1..Len(diff.index) : diff.index[k] = data.index[j]

\* a diff with a defined entry that pairing by position would have got
\* wrong, and with undefined entries on both sides of the overlap
WitnessLabelNotPosition ==
    /\ pc = "done"
    /\ \E k \in 1..Len(diff.index) : \E j \in 1..Len(data.index) :
          /\ diff.index[k] = data.index[j]
          /\ diff.values[k] # NaN
          /\ diff.values[k] # Sub(estimates.rows[j]["infected"], data.rows[j]["positive"])
    /\ \E k \in 1..Len(diff.index) : diff.values[k] = NaN /\ InData(diff.index[k])
    /\ \E k \in 1..Len(diff.index) : diff.values[k] = NaN /\ InEstimates(diff.index[k])

====
